---- MODULE Spec2Model ----
(***************************************************************************)
(* Model of the Home page of the meal recommender                          *)
(* (react-frontend/src/pages/Home.jsx): the loadHomeData handler, its      *)
(* three API calls, and the "featured meals" ranking it computes           *)
(* (sort by rating and popularity, first six).                             *)
(*                                                                         *)
(* Numbers.  averageRating is held in tenths of a star (4.5 -> 45) and     *)
(* popularity as an integer count; the comparator is evaluated in tenths   *)
(* and exactly (no floating-point rounding).  A field that the code reads  *)
(* through `|| 0` may be missing: Undefined.                               *)
(*                                                                         *)
(* Responses.  The resolved values are what the code takes them to be:     *)
(* mealsResponse and healthData are objects (read without a guard),        *)
(* mealsResponse.meals is an array or missing (guarded by `|| []`), every  *)
(* meal is an object, and meals of one response have distinct identifiers. *)
(***************************************************************************)
EXTENDS Integers, Sequences, FiniteSets, TLC

VARIABLES
    \* ---- React state of Home (useState, lines 9-13)
    stats, featuredMeals, loading, error, apiInfo,
    \* ---- the run of loadHomeData and its promises
    pc, apiInfoP, healthP, mealsP, rankRuns,
    \* ---- the ranking step on its own: input, output, and a second run
    candidates, ranked, previous, raisedId, step

vars == <<stats, featuredMeals, loading, error, apiInfo,
          pc, apiInfoP, healthP, mealsP, rankRuns,
          candidates, ranked, previous, raisedId, step>>

homeVars == <<stats, featuredMeals, loading, error, apiInfo,
              pc, apiInfoP, healthP, mealsP, rankRuns>>

rankVars == <<candidates, ranked, previous, raisedId, step>>

----------------------------------------------------------------------------
(* Bounds *)

\* longest meals array drawn for the ranking step (one more than the limit)
MaxMeals == 7
\* longest meals array a getMeals response carries in the handler model
MaxResponse == 2
\* longest meals array drawn in every order of its meals
MaxPermuted == 3
\* the diversity scenario: meals of the first and of the second cuisine
NumFirstCuisine == 20
NumSecondCuisine == 2

----------------------------------------------------------------------------
(* Values *)

\* a missing numeric field (undefined); ratings and popularities are >= 0
Undefined == -1
\* null, the initial value of stats, error and apiInfo
Null == [null |-> TRUE]
\* averageRating is held in tenths, so popularity is scaled by ten in compare
Tenths == 10
\* .slice(0, 6)
FeaturedLimit == 6
\* the message of setError in the catch block
FailureMessage == "Failed to load application data. Please try again."

Min(a, b) == IF a <= b THEN a ELSE b

Range(s) == {s[i] : i \in 1..Len(s)}

Front(s) == SubSeq(s, 1, Len(s) - 1)

Last(s) == s[Len(s)]

Meal(i, c, g, r, p) ==
    [id |-> i, cuisine |-> c, category |-> g, averageRating |-> r, popularity |-> p]

\* The catalog the responses are drawn from.  Meals 1-3 are the worked
\* example of the spec; 5 ties with 1 on both fields, 6 ties with 2 and 8
\* with 7 on the sum only; 4 has no rating, 7 no popularity.
MealPool ==
    { Meal(1, "A", "main",  45, 100),
      Meal(2, "A", "snack", 40, 50),
      Meal(3, "B", "main",  30, 10),
      Meal(4, "B", "snack", Undefined, 0),
      Meal(5, "A", "main",  45, 100),
      Meal(6, "C", "main",  50, 49),
      Meal(7, "B", "drink", 20, Undefined),
      Meal(8, "A", "drink", 0, 2) }

\* ratings a meal's averageRating can be raised to
RatingValues == {10, 40, 50}

\* the meals a getMeals response of the handler model is made of: 6 is rated
\* above 1 and ranks below it, 4 has no rating
ResponsePool == {m \in MealPool : m.id \in {1, 4, 6}}

RECURSIVE SeqsOfLen(_, _)
\* the arrays of n meals of P with distinct identifiers, in every order
SeqsOfLen(P, n) ==
    IF n = 0 THEN {<<>>}
    ELSE UNION { {Append(s, m) : m \in P \ Range(s)} : s \in SeqsOfLen(P, n - 1) }

\* the meals arrays a getMeals response carries in the handler model
ResponseSeqs(n) == UNION {SeqsOfLen(ResponsePool, k) : k \in 0..n}

RECURSIVE Ascending(_)
\* the meals of S by ascending identifier
Ascending(S) ==
    IF S = {} THEN <<>>
    ELSE LET m == CHOOSE x \in S : \A y \in S : x.id <= y.id
         IN  <<m>> \o Ascending(S \ {m})

Reverse(s) == [i \in 1..Len(s) |-> s[Len(s) + 1 - i]]

\* The meals arrays drawn: every order of up to MaxPermuted meals, and every
\* set of up to n meals by ascending and by descending identifier (so that
\* meals with equal keys arrive in both orders).
MealSeqs(n) ==
    UNION {SeqsOfLen(MealPool, k) : k \in 0..Min(n, MaxPermuted)}
      \cup {Ascending(S) : S \in {T \in SUBSET MealPool : Cardinality(T) <= n}}
      \cup {Reverse(Ascending(S)) : S \in {T \in SUBSET MealPool : Cardinality(T) <= n}}

----------------------------------------------------------------------------
(* The ranking step: lines 40-42 *)

\* x || 0
OrZero(x) == IF x = Undefined THEN 0 ELSE x

\* the sort key the comparator amounts to: rating plus popularity
Score(m) == OrZero(m.averageRating) + Tenths * OrZero(m.popularity)

compare_rating_only(a, b) ==
    OrZero(b.averageRating) - OrZero(a.averageRating)

compare_rating_inverted(a, b) ==
    (OrZero(a.averageRating) - OrZero(b.averageRating))
        + Tenths * OrZero(b.popularity) - Tenths * OrZero(a.popularity)

compare_reversed(a, b) ==
    (OrZero(a.averageRating) - OrZero(b.averageRating))
        + Tenths * OrZero(a.popularity) - Tenths * OrZero(b.popularity)

\* (a, b) => (b.averageRating || 0) - (a.averageRating || 0)
\*           + (b.popularity || 0) - (a.popularity || 0)
compare(a, b) ==
    (OrZero(b.averageRating) - OrZero(a.averageRating))
        + Tenths * OrZero(b.popularity) - Tenths * OrZero(a.popularity)

RECURSIVE InsertSorted_unstable(_, _)
InsertSorted_unstable(s, x) ==
    IF s = <<>> THEN <<x>>
    ELSE IF compare(Last(s), x) >= 0
         THEN Append(InsertSorted_unstable(Front(s), x), Last(s))
         ELSE Append(s, x)

RECURSIVE InsertSorted(_, _)
\* x put into the sorted array s behind every element that does not have to
\* follow it: Array.prototype.sort is stable
InsertSorted(s, x) ==
    IF s = <<>> THEN <<x>>
    ELSE IF compare(Last(s), x) > 0
         THEN Append(InsertSorted(Front(s), x), Last(s))
         ELSE Append(s, x)

RECURSIVE sort(_)
\* meals.sort(compare)
sort(s) == IF s = <<>> THEN <<>> ELSE InsertSorted(sort(Front(s)), Last(s))

slice_one_more(s, n) == SubSeq(s, 1, Min(n + 1, Len(s)))

\* s.slice(0, n)
slice(s, n) == SubSeq(s, 1, Min(n, Len(s)))

\* const featured = meals.sort(...).slice(0, 6)
Featured(meals) == slice(sort(meals), FeaturedLimit)

Ids(s) == [i \in 1..Len(s) |-> s[i].id]

\* the position of the meal with identifier i in s, 0 when it is not in s
PosOf(s, i) ==
    IF \E k \in 1..Len(s) : s[k].id = i
    THEN CHOOSE k \in 1..Len(s) : s[k].id = i
    ELSE 0

----------------------------------------------------------------------------
(* The ranking step applied to drawn inputs *)

HomeIdle ==
    /\ stats = Null /\ featuredMeals = <<>> /\ loading = TRUE
    /\ error = Null /\ apiInfo = Null
    /\ pc = "mounted"
    /\ apiInfoP = [state |-> "idle", value |-> Null]
    /\ healthP = [state |-> "idle", value |-> Null]
    /\ mealsP = [state |-> "idle", hasMeals |-> FALSE, meals |-> <<>>]
    /\ rankRuns = 0

InitRank ==
    /\ HomeIdle
    /\ candidates \in MealSeqs(MaxMeals)
    /\ ranked = <<>> /\ previous = <<>> /\ raisedId = 0
    /\ step = "input"

\* the sort and the slice of lines 40-42 on the drawn meals
RankStep ==
    /\ step = "input"
    /\ ranked' = Featured(candidates)
    /\ step' = "ranked"
    /\ UNCHANGED <<candidates, previous, raisedId>>
    /\ UNCHANGED homeVars

\* a second run on the same meals with one averageRating raised
RaiseStep ==
    /\ step = "ranked"
    /\ \E i \in 1..Len(candidates), r \in RatingValues :
        /\ r > OrZero(candidates[i].averageRating)
        /\ candidates' = [candidates EXCEPT ![i].averageRating = r]
        /\ raisedId' = candidates[i].id
    /\ previous' = ranked
    /\ ranked' = Featured(candidates')
    /\ step' = "reranked"
    /\ UNCHANGED homeVars

NextRank == RankStep \/ RaiseStep

SpecRank == InitRank /\ [][NextRank]_vars

----------------------------------------------------------------------------
(* The diversity scenario: many meals of one cuisine, a few of a second *)

\* ratings drawn for a meal of the second cuisine
SecondRatings == {30, 45, 50}

\* meal i of the first cuisine; the first t of them are rated higher
FirstCuisineMeal(i, t) ==
    Meal(i, "A", "main", IF i <= t THEN 45 ELSE 30, 10)

\* popularities drawn for a meal of the second cuisine
SecondPopularities == {10, 11}

SecondCuisineMeal(j, rp) == Meal(NumFirstCuisine + j, "B", "main", rp[1], rp[2])

\* the meals arrays of the scenario: the second-cuisine meals before or
\* behind the first-cuisine ones
DiversityInputs ==
    { IF front
      THEN [j \in 1..NumSecondCuisine |-> SecondCuisineMeal(j, f[j])]
              \o [i \in 1..NumFirstCuisine |-> FirstCuisineMeal(i, t)]
      ELSE [i \in 1..NumFirstCuisine |-> FirstCuisineMeal(i, t)]
              \o [j \in 1..NumSecondCuisine |-> SecondCuisineMeal(j, f[j])]
      : t \in 0..NumFirstCuisine,
        f \in [1..NumSecondCuisine -> SecondRatings \X SecondPopularities],
        front \in BOOLEAN }

InitDiversity ==
    /\ HomeIdle
    /\ candidates \in DiversityInputs
    /\ ranked = <<>> /\ previous = <<>> /\ raisedId = 0
    /\ step = "input"

NextDiversity == RankStep

SpecDiversity == InitDiversity /\ [][NextDiversity]_vars

----------------------------------------------------------------------------
(* loadHomeData: lines 19-69, run once on mount (useEffect, lines 15-17) *)

\* what getApiInfo resolves to, as far as Home reads it:
\* apiInfo?.mlIntegration?.enabled is true, false or not there
ApiInfoValues == {[mlIntegration |-> e] : e \in {"enabled", "disabled", "missing"}}

\* what healthCheck resolves to: healthData.status
HealthValues == {[status |-> h] : h \in {"healthy", "unhealthy"}}

\* mealsResponse.meals || []
MealsOrEmpty(resp) == IF resp.hasMeals THEN resp.meals ELSE <<>>

\* `await p` lets the code behind it run once p has resolved
Awaited(p) == p.state = "resolved"

\* Promise.all rejects as soon as one of its promises does
AnyRejected(ps) == \E p \in ps : p.state = "rejected"

RECURSIVE SumRatings(_)
\* meals.reduce((sum, meal) => sum + (meal.averageRating || 0), 0)
SumRatings(s) ==
    IF s = <<>> THEN 0 ELSE SumRatings(Front(s)) + OrZero(Last(s).averageRating)

\* Object.entries(cuisineStats).sort(([,a], [,b]) => b - a)[0]?.[0] || 'N/A':
\* the keys are in the order of their first meal and the sort is stable
TopCuisine(meals) ==
    IF meals = <<>> THEN "N/A"
    ELSE LET count(c) == Cardinality({i \in 1..Len(meals) : meals[i].cuisine = c})
             best(i) == \A k \in 1..Len(meals) :
                            count(meals[k].cuisine) <= count(meals[i].cuisine)
             first == CHOOSE i \in 1..Len(meals) :
                            best(i) /\ \A k \in 1..(i - 1) : ~best(k)
         IN  meals[first].cuisine

\* the object of setStats (lines 54-61); averageRating in tenths, rounded down
StatsOf(meals, healthData) ==
    [ totalMeals    |-> Len(meals),
      healthySystem |-> (healthData.status = "healthy"),
      cuisineCount  |-> Cardinality({meals[i].cuisine : i \in 1..Len(meals)}),
      categoryCount |-> Cardinality({meals[i].category : i \in 1..Len(meals)}),
      topCuisine    |-> TopCuisine(meals),
      averageRating |-> IF meals = <<>> THEN 0 ELSE SumRatings(meals) \div Len(meals) ]

\* "ML API Connected" : "ML API Offline" (line 151)
MlOffline == ~(apiInfo # Null /\ apiInfo.mlIntegration = "enabled")

Init ==
    /\ HomeIdle
    /\ candidates = <<>> /\ ranked = <<>> /\ previous = <<>> /\ raisedId = 0
    /\ step = "idle"

\* lines 20-28: the effect calls loadHomeData, which issues the two calls
Start ==
    /\ pc = "mounted"
    /\ loading' = TRUE
    /\ error' = Null
    /\ apiInfoP' = [apiInfoP EXCEPT !.state = "pending"]
    /\ healthP' = [healthP EXCEPT !.state = "pending"]
    /\ pc' = "awaitAll"
    /\ UNCHANGED <<stats, featuredMeals, apiInfo, mealsP, rankRuns>>
    /\ UNCHANGED rankVars

\* systemAPI.getApiInfo() settles
SettleApiInfo ==
    /\ apiInfoP.state = "pending"
    /\ \/ \E v \in ApiInfoValues : apiInfoP' = [state |-> "resolved", value |-> v]
       \/ apiInfoP' = [apiInfoP EXCEPT !.state = "rejected"]
    /\ UNCHANGED <<stats, featuredMeals, loading, error, apiInfo, pc, healthP, mealsP, rankRuns>>
    /\ UNCHANGED rankVars

\* systemAPI.healthCheck() settles
SettleHealth ==
    /\ healthP.state = "pending"
    /\ \/ \E v \in HealthValues : healthP' = [state |-> "resolved", value |-> v]
       \/ healthP' = [healthP EXCEPT !.state = "rejected"]
    /\ UNCHANGED <<stats, featuredMeals, loading, error, apiInfo, pc, apiInfoP, mealsP, rankRuns>>
    /\ UNCHANGED rankVars

\* mealAPI.getMeals({limit: 6}) settles
SettleMeals ==
    /\ mealsP.state = "pending"
    /\ \/ \E m \in ResponseSeqs(MaxResponse) :
            mealsP' = [state |-> "resolved", hasMeals |-> TRUE, meals |-> m]
       \/ mealsP' = [state |-> "resolved", hasMeals |-> FALSE, meals |-> <<>>]
       \/ mealsP' = [mealsP EXCEPT !.state = "rejected"]
    /\ UNCHANGED <<stats, featuredMeals, loading, error, apiInfo, pc, apiInfoP, healthP, rankRuns>>
    /\ UNCHANGED rankVars

\* lines 25-35: both calls resolved; setApiInfo, then getMeals is issued
ContinueAfterAll ==
    /\ pc = "awaitAll"
    /\ Awaited(apiInfoP) /\ Awaited(healthP)
    /\ apiInfo' = apiInfoP.value
    /\ mealsP' = [mealsP EXCEPT !.state = "pending"]
    /\ pc' = "awaitMeals"
    /\ UNCHANGED <<stats, featuredMeals, loading, error, apiInfoP, healthP, rankRuns>>
    /\ UNCHANGED rankVars

FailAfterAll_NoFinally ==
    /\ pc = "awaitAll"
    /\ AnyRejected({apiInfoP, healthP})
    /\ error' = [message |-> FailureMessage]
    /\ pc' = "done"
    /\ UNCHANGED <<stats, featuredMeals, loading, apiInfo, apiInfoP, healthP, mealsP, rankRuns>>
    /\ UNCHANGED rankVars

\* lines 25, 63-68: one of the two calls rejected; catch, then finally
FailAfterAll ==
    /\ pc = "awaitAll"
    /\ AnyRejected({apiInfoP, healthP})
    /\ error' = [message |-> FailureMessage]
    /\ loading' = FALSE
    /\ pc' = "done"
    /\ UNCHANGED <<stats, featuredMeals, apiInfo, apiInfoP, healthP, mealsP, rankRuns>>
    /\ UNCHANGED rankVars

ContinueAfterMeals_NoAwait ==
    /\ pc = "awaitMeals"
    /\ mealsP.state \in {"pending", "resolved"}
    /\ featuredMeals' = Featured(MealsOrEmpty(mealsP))
    /\ stats' = StatsOf(sort(MealsOrEmpty(mealsP)), healthP.value)
    /\ rankRuns' = rankRuns + 1
    /\ loading' = FALSE
    /\ pc' = "done"
    /\ UNCHANGED <<error, apiInfo, apiInfoP, healthP, mealsP>>
    /\ UNCHANGED rankVars

ContinueAfterMeals_Validating ==
    /\ pc = "awaitMeals"
    /\ Awaited(mealsP)
    /\ IF MealsOrEmpty(mealsP) = <<>>
       THEN /\ error' = [message |-> FailureMessage]
            /\ UNCHANGED <<featuredMeals, stats, rankRuns>>
       ELSE /\ featuredMeals' = Featured(MealsOrEmpty(mealsP))
            /\ stats' = StatsOf(sort(MealsOrEmpty(mealsP)), healthP.value)
            /\ rankRuns' = rankRuns + 1
            /\ UNCHANGED error
    /\ loading' = FALSE
    /\ pc' = "done"
    /\ UNCHANGED <<apiInfo, apiInfoP, healthP, mealsP>>
    /\ UNCHANGED rankVars

\* lines 33-61, 66-68: getMeals resolved; the meals are sorted in place and
\* sliced, setFeaturedMeals, setStats (over the sorted array), then finally
ContinueAfterMeals ==
    /\ pc = "awaitMeals"
    /\ Awaited(mealsP)
    /\ featuredMeals' = Featured(MealsOrEmpty(mealsP))
    /\ stats' = StatsOf(sort(MealsOrEmpty(mealsP)), healthP.value)
    /\ rankRuns' = rankRuns + 1
    /\ loading' = FALSE
    /\ pc' = "done"
    /\ UNCHANGED <<error, apiInfo, apiInfoP, healthP, mealsP>>
    /\ UNCHANGED rankVars

\* lines 33, 63-68: getMeals rejected; catch, then finally
FailAfterMeals ==
    /\ pc = "awaitMeals"
    /\ AnyRejected({mealsP})
    /\ error' = [message |-> FailureMessage]
    /\ loading' = FALSE
    /\ pc' = "done"
    /\ UNCHANGED <<stats, featuredMeals, apiInfo, apiInfoP, healthP, mealsP, rankRuns>>
    /\ UNCHANGED rankVars

Next ==
    \/ Start
    \/ SettleApiInfo
    \/ SettleHealth
    \/ SettleMeals
    \/ ContinueAfterAll
    \/ FailAfterAll
    \/ ContinueAfterMeals
    \/ FailAfterMeals

Spec == Init /\ [][Next]_vars

\* every API call settles, and the continuation of a settled await runs
Fairness ==
    /\ WF_vars(Start)
    /\ WF_vars(SettleApiInfo)
    /\ WF_vars(SettleHealth)
    /\ WF_vars(SettleMeals)
    /\ WF_vars(ContinueAfterAll)
    /\ WF_vars(FailAfterAll)
    /\ WF_vars(ContinueAfterMeals)
    /\ WF_vars(FailAfterMeals)

FairSpec == Spec /\ Fairness

----------------------------------------------------------------------------
(* Properties of the ranking step *)

ExampleMeals == {m \in MealPool : m.id \in {1, 2, 3}}

C7_Monotone ==
    step = "reranked" =>
        LET p == PosOf(previous, raisedId)
        IN  p > 0 =>
              /\ PosOf(ranked, raisedId) > 0
              /\ \A q \in (p + 1)..Len(previous) :
                    PosOf(ranked, previous[q].id) > 0 =>
                        PosOf(ranked, raisedId) < PosOf(ranked, previous[q].id)

\* a raised meal that preceded another one and moved up
C7_RaisedMovedUp ==
    /\ step = "reranked"
    /\ PosOf(previous, raisedId) > 1
    /\ PosOf(previous, raisedId) < Len(previous)
    /\ PosOf(ranked, raisedId) < PosOf(previous, raisedId)

\* candidate j is ahead of candidate i: a higher rating + popularity, or the
\* same and earlier in the response
Ahead(j, i) ==
    \/ Score(candidates[j]) > Score(candidates[i])
    \/ Score(candidates[j]) = Score(candidates[i]) /\ j < i

----------------------------------------------------------------------------
(* Properties of loadHomeData *)

AllCalls == {apiInfoP, healthP, mealsP}

C9_RankAfterAllFetches ==
    /\ rankRuns > 0 => (rankRuns = 1 /\ \A p \in AllCalls : Awaited(p))
    /\ AnyRejected(AllCalls) => rankRuns = 0

\* the ranking has run on a non-empty response
C9_Ranked ==
    /\ rankRuns = 1
    /\ featuredMeals # <<>>
    /\ \A p \in AllCalls : Awaited(p)

====
